---- MODULE Spec2Model ----
(***************************************************************************)
(* Naive Bayes spam/ham classifier of mproject3 (naivebayes.py, util.py).  *)
(*                                                                         *)
(* Numbers.  The program works with IEEE doubles that are natural logs of  *)
(* small rationals, sums of them, and (in the absent-word branch) 1 - v.   *)
(* A finite value is kept exactly as  k + ln(num/den)  with k an integer   *)
(* and num/den a positive rational in lowest terms; -inf, +inf and nan are *)
(* separate kinds.  Sums are exact, so a sum that is 0 in the reals is 0   *)
(* here (for the corpora of this model the double sums are exact too:      *)
(* ln(1/2) + ln 2 and ln(1/4) + 2 ln 2 cancel exactly in doubles).         *)
(***************************************************************************)
EXTENDS Integers, Sequences, FiniteSets, TLC

\* Bounds of the model.
MaxTrain == 3      \* training files over both classes together
MaxCalls == 2      \* classify_email calls made after one training run
MaxTests == 2      \* test files main() processes

\* The vocabulary and the files (word lists, as util.get_words_in_file
\* returns them) the inputs are drawn from.
Words == {"free", "money"}
Files == { <<>>, <<"free">>, <<"free", "free">>, <<"money">>, <<"free", "money">> }

VARIABLES
    pc,                             \* "start", "learned", "main", "done", "crashed"
    error,                          \* "none", or the exception the last call raised
    file_lists,                     \* <<spam files, ham files>> given to learn_distributions
    word_counts,                    \* get_counts of each list (local `words`, line 64)
    log_probabilities_by_category,  \* <<spam table, ham table>>
    log_prior,                      \* <<spam prior, ham prior>>
    email,                          \* words of the file of the latest classify_email call
    label,                          \* its return value, "none" when it raised / before any call
    seen_email,                     \* the file of the first classify_email call
    seen_label,                     \* what the first call returned
    seen_error,                     \* what the first call raised
    calls,                          \* number of classify_email calls so far
    performance_measures,           \* main's 2x2 matrix, [true][guessed]
    processed,                      \* history: test files main has classified
    correct_files,                  \* history: those whose label matches the file name
    true_ham_files,                 \* history: those whose name contains 'ham'
    printed                         \* <<correct[0], totals[0], correct[1], totals[1]>>

vars == <<pc, error, file_lists, word_counts, log_probabilities_by_category,
          log_prior, email, label, seen_email, seen_label, seen_error, calls,
          performance_measures, processed, correct_files, true_ham_files, printed>>

Range(s) == {s[i] : i \in 1..Len(s)}

-----------------------------------------------------------------------------
\* Extended reals  k + ln(num/den)

RECURSIVE Gcd(_, _)
Gcd(a, b) == IF b = 0 THEN a ELSE Gcd(b, a % b)

Fin(k, n, d) == [kind |-> "fin", k |-> k, num |-> n \div Gcd(n, d), den |-> d \div Gcd(n, d)]
NegInf == [kind |-> "neginf", k |-> 0, num |-> 0, den |-> 1]
PosInf == [kind |-> "posinf", k |-> 0, num |-> 1, den |-> 0]
NaN    == [kind |-> "nan", k |-> 0, num |-> 0, den |-> 0]

\* util.careful_log(x), x a non-negative rational <<n, d>>
careful_log(x) == IF x[1] = 0 THEN NegInf ELSE Fin(0, x[1], x[2])

\* a + b on doubles
Add(a, b) ==
    IF a.kind = "nan" \/ b.kind = "nan" THEN NaN
    ELSE IF a.kind = "fin" /\ b.kind = "fin"
         THEN Fin(a.k + b.k, a.num * b.num, a.den * b.den)
    ELSE IF a.kind = "fin" THEN b
    ELSE IF b.kind = "fin" THEN a
    ELSE IF a.kind = b.kind THEN a
    ELSE NaN

\* 1 - a on doubles
OneMinus(a) ==
    CASE a.kind = "fin"    -> Fin(1 - a.k, a.den, a.num)
      [] a.kind = "neginf" -> PosInf
      [] a.kind = "posinf" -> NegInf
      [] OTHER             -> NaN

\* a - b on doubles (the log-odds difference of DecideLogOdds)
Sub(a, b) == Add(a, Add(OneMinus(b), Fin(-1, 1, 1)))

RECURSIVE Pow(_, _)
Pow(b, n) == IF n = 0 THEN 1 ELSE b * Pow(b, n - 1)

\* e^n as a rational <<numerator, denominator>>, from the convergent 1264/465
\* of e (2.718280).  The next convergent is 1457/536, so no fraction with a
\* denominator below 465 lies between this value and e: the comparison below
\* is exact for the small rationals the program produces.
EPow(n) == <<Pow(1264, n), Pow(465, n)>>

\* Sign of a finite value k + ln(num/den): the sign of ln(num/den * e^k).
SignFin(a) ==
    IF a.k = 0
    THEN (IF a.num > a.den THEN 1 ELSE IF a.num < a.den THEN -1 ELSE 0)
    ELSE IF a.k > 0
    THEN (IF a.num * EPow(a.k)[1] > a.den * EPow(a.k)[2] THEN 1 ELSE -1)
    ELSE (IF a.num * EPow(-a.k)[2] > a.den * EPow(-a.k)[1] THEN 1 ELSE -1)

Sign(a) ==
    CASE a.kind = "fin"    -> SignFin(a)
      [] a.kind = "neginf" -> -1
      [] a.kind = "posinf" -> 1
      [] OTHER             -> 0

\* posterior_dist[0]/posterior_dist[1] >= 0 on numpy doubles (line 143).  A
\* finite operand is always an np.float64, so a zero divisor gives inf or nan
\* with a warning, never ZeroDivisionError; every zero here is +0.0.
RatioGE0(a, b) ==
    IF a.kind = "nan" \/ b.kind = "nan" THEN FALSE
    ELSE IF a.kind # "fin" /\ b.kind # "fin" THEN FALSE           \* inf/inf = nan
    ELSE IF b.kind # "fin" THEN TRUE                              \* x/inf = +-0.0
    ELSE IF Sign(b) = 0 THEN Sign(a) > 0                          \* x/0.0 = +-inf, 0/0 = nan
    ELSE IF Sign(a) = 0 THEN TRUE                                 \* +-0.0 >= 0
    ELSE Sign(a) * Sign(b) > 0

-----------------------------------------------------------------------------
\* Python mappings: a plain dict raises KeyError on a missing key, a
\* defaultdict inserts default_factory() and returns it.

EmptyItems == [w \in {} |-> 0]
Dict(items) == [kind |-> "dict", items |-> items]
DefaultDict(default, items) == [kind |-> "defaultdict", default |-> default, items |-> items]
Keys(d) == DOMAIN d.items

\* d[key], as a read: <<raised, value, the mapping afterwards>>
GetItem(d, key) ==
    IF key \in Keys(d) THEN [raised |-> FALSE, value |-> d.items[key], dict |-> d]
    ELSE IF d.kind = "defaultdict"
    THEN [raised |-> FALSE, value |-> d.default,
          dict |-> [d EXCEPT !.items = [w \in Keys(d) \cup {key} |->
                                           IF w = key THEN d.default ELSE d.items[w]]]]
    ELSE [raised |-> TRUE, value |-> NaN, dict |-> d]

\* d[key] = value
SetItem(d, key, value) ==
    [d EXCEPT !.items = [w \in Keys(d) \cup {key} |-> IF w = key THEN value ELSE d.items[w]]]

-----------------------------------------------------------------------------
\* get_counts

\* the value of defaultdict(lambda:1) for a missing key
Pseudocount == 1

\* for word in words_in_file: words_dict[word] += 1   (lines 36-37)
RECURSIVE CountWords(_, _)
CountWords(words_dict, words_in_file) ==
    IF words_in_file = {} THEN words_dict
    ELSE LET word == CHOOSE w \in words_in_file : TRUE
             got  == GetItem(words_dict, word)
         IN  CountWords(SetItem(got.dict, word, got.value + 1), words_in_file \ {word})

\* for file in file_list: ...   (lines 31-37), from file number i on
RECURSIVE CountFiles(_, _, _)
CountFiles(words_dict, file_list, i) ==
    IF i > Len(file_list) THEN words_dict
    ELSE CountFiles(CountWords(words_dict, Range(file_list[i])), file_list, i + 1)

\* Mutant: every occurrence of a word counts (no set() around the word list).
RECURSIVE CountOccurrences(_, _, _)
CountOccurrences(words_dict, words, j) ==
    IF j > Len(words) THEN words_dict
    ELSE LET got == GetItem(words_dict, words[j])
         IN  CountOccurrences(SetItem(got.dict, words[j], got.value + 1), words, j + 1)

RECURSIVE CountFilesOccurrences(_, _, _)
CountFilesOccurrences(words_dict, file_list, i) ==
    IF i > Len(file_list) THEN words_dict
    ELSE CountFilesOccurrences(CountOccurrences(words_dict, file_list[i], 1), file_list, i + 1)

get_counts_term_frequency(file_list) ==
    CountFilesOccurrences(DefaultDict(Pseudocount, EmptyItems), file_list, 1)

get_counts(file_list) == CountFiles(DefaultDict(Pseudocount, EmptyItems), file_list, 1)

-----------------------------------------------------------------------------
\* get_log_probabilities: a plain dict {word: careful_log(counts)}; numFiles
\* is computed (line 62) and never used.

\* Mutant: the table keeps the defaultdict behaviour of get_counts.
get_log_probabilities_defaultdict(file_list) ==
    LET words == get_counts(file_list)
    IN  DefaultDict(careful_log(<<Pseudocount, 1>>),
                    [word \in Keys(words) |-> careful_log(<<words.items[word], 1>>)])

get_log_probabilities(file_list) ==
    LET words == get_counts(file_list)
    IN  Dict([word \in Keys(words) |-> careful_log(<<words.items[word], 1>>)])

-----------------------------------------------------------------------------
\* learn_distributions: [raised, tables, priors], lists indexed 0 (spam) and
\* 1 (ham) as in the code.  class_counts/total_emails is a division of two
\* ints: ZeroDivisionError when both lists are empty (raised in the first
\* iteration of the loop, line 101).

total_emails(file_lists_by_category) ==
    Len(file_lists_by_category[0]) + Len(file_lists_by_category[1])

NoTables == [index \in 0..1 |-> Dict(EmptyItems)]
NoPriors == [index \in 0..1 |-> NaN]

\* Mutant: the prior of a class is computed from the other class's list.
learn_distributions_swapped(file_lists_by_category) ==
    IF total_emails(file_lists_by_category) = 0
    THEN [raised |-> TRUE, tables |-> NoTables, priors |-> NoPriors]
    ELSE [raised |-> FALSE,
          tables |-> [index \in 0..1 |-> get_log_probabilities(file_lists_by_category[index])],
          priors |-> [index \in 0..1 |->
                        careful_log(<<Len(file_lists_by_category[1 - index]),
                                      total_emails(file_lists_by_category)>>)]]

learn_distributions(file_lists_by_category) ==
    IF total_emails(file_lists_by_category) = 0
    THEN [raised |-> TRUE, tables |-> NoTables, priors |-> NoPriors]
    ELSE [raised |-> FALSE,
          tables |-> [index \in 0..1 |-> get_log_probabilities(file_lists_by_category[index])],
          priors |-> [index \in 0..1 |->
                        careful_log(<<Len(file_lists_by_category[index]),
                                      total_emails(file_lists_by_category)>>)]]

-----------------------------------------------------------------------------
\* classify_email

labels == [index \in 0..1 |-> IF index = 0 THEN "spam" ELSE "ham"]

\* for word in new_words: ...   (lines 134-140) for one label:
\* [raised, posterior, table afterwards]
RECURSIVE ScoreWords(_, _, _)
ScoreWords(posterior, table, new_words) ==
    IF new_words = {} THEN [raised |-> FALSE, posterior |-> posterior, table |-> table]
    ELSE LET word == CHOOSE w \in new_words : TRUE
             got  == GetItem(table, word)
         IN  IF word \in Keys(table)
             THEN ScoreWords(Add(posterior, got.value), table, new_words \ {word})
             ELSE IF got.raised
             THEN [raised |-> TRUE, posterior |-> posterior, table |-> table]
             ELSE ScoreWords(Add(posterior, OneMinus(got.value)), got.dict,
                             new_words \ {word})

\* Mutant: the intended MAP rule, the difference of the two log posteriors.
DecideLogOdds(posterior_dist) ==
    LET diff == Sub(posterior_dist[0], posterior_dist[1])
    IN  IF diff.kind # "nan" /\ Sign(diff) >= 0 THEN labels[0] ELSE labels[1]

\* lines 143-147
Decide(posterior_dist) ==
    IF RatioGE0(posterior_dist[0], posterior_dist[1]) THEN labels[0] ELSE labels[1]

\* [raised, label, tables afterwards]; label 0 is scored before label 1
classify_email(words, tables, priors) ==
    LET new_words == Range(words)
        s0 == ScoreWords(priors[0], tables[0], new_words)
        s1 == ScoreWords(priors[1], tables[1], new_words)
    IN  IF s0.raised
        THEN [raised |-> TRUE, label |-> "none", tables |-> tables]
        ELSE IF s1.raised
        THEN [raised |-> TRUE, label |-> "none",
              tables |-> [tables EXCEPT ![0] = s0.table]]
        ELSE [raised |-> FALSE,
              label |-> Decide([index \in 0..1 |-> IF index = 0 THEN s0.posterior
                                                    ELSE s1.posterior]),
              tables |-> [index \in 0..1 |-> IF index = 0 THEN s0.table ELSE s1.table]]

-----------------------------------------------------------------------------
\* The state machine

\* The lists of at most n files.
RECURSIVE ListsUpTo(_)
ListsUpTo(n) ==
    IF n = 0 THEN {<<>>}
    ELSE LET shorter == ListsUpTo(n - 1)
         IN  shorter \cup {Append(l, f) : l \in {x \in shorter : Len(x) = n - 1}, f \in Files}

ZeroMatrix == [t \in 0..1 |-> [g \in 0..1 |-> 0]]

Init ==
    /\ pc = "start"
    /\ error = "none"
    /\ file_lists = [index \in 0..1 |-> <<>>]
    /\ word_counts = [index \in 0..1 |-> DefaultDict(Pseudocount, EmptyItems)]
    /\ log_probabilities_by_category = NoTables
    /\ log_prior = NoPriors
    /\ email = <<>>
    /\ label = "none"
    /\ seen_email = <<>>
    /\ seen_label = "none"
    /\ seen_error = "none"
    /\ calls = 0
    /\ performance_measures = ZeroMatrix
    /\ processed = 0
    /\ correct_files = 0
    /\ true_ham_files = 0
    /\ printed = <<>>

\* learn_distributions(file_lists), as main (line 171) and classify_emails
\* (line 151) call it
Learn ==
    /\ pc = "start"
    /\ \E spam_files \in ListsUpTo(MaxTrain) :
       \E ham_files \in ListsUpTo(MaxTrain - Len(spam_files)) :
         LET lists   == [index \in 0..1 |-> IF index = 0 THEN spam_files ELSE ham_files]
             learned == learn_distributions(lists)
         IN     /\ file_lists' = lists
                /\ IF learned.raised
                   THEN /\ pc' = "crashed"
                        /\ error' = "ZeroDivisionError"
                        /\ UNCHANGED <<word_counts, log_probabilities_by_category, log_prior>>
                   ELSE /\ pc' = "learned"
                        /\ error' = "none"
                        /\ word_counts' = [index \in 0..1 |-> get_counts(lists[index])]
                        /\ log_probabilities_by_category' = learned.tables
                        /\ log_prior' = learned.priors
    /\ UNCHANGED <<email, label, seen_email, seen_label, seen_error, calls,
                   performance_measures, processed, correct_files, true_ham_files, printed>>

\* one classify_email call of the loop of classify_emails (lines 154-157)
Classify ==
    /\ pc = "learned"
    /\ calls < MaxCalls
    /\ \E words \in Files :
         LET result == classify_email(words, log_probabilities_by_category, log_prior)
         IN  /\ email' = words
             /\ label' = result.label
             /\ error' = IF result.raised THEN "KeyError" ELSE "none"
             /\ log_probabilities_by_category' = result.tables
             /\ seen_email' = IF calls = 0 THEN words ELSE seen_email
             /\ seen_label' = IF calls = 0 THEN result.label ELSE seen_label
             /\ seen_error' = IF calls = 0 THEN error' ELSE seen_error
    /\ calls' = calls + 1
    /\ UNCHANGED <<pc, file_lists, word_counts, log_prior,
                   performance_measures, processed, correct_files, true_ham_files, printed>>

\* main, line 176: the matrix is created after learning
MainStart ==
    /\ pc = "learned"
    /\ calls = 0
    /\ pc' = "main"
    /\ performance_measures' = ZeroMatrix
    /\ UNCHANGED <<error, file_lists, word_counts, log_probabilities_by_category, log_prior,
                   email, label, seen_email, seen_label, seen_error, calls,
                   processed, correct_files, true_ham_files, printed>>

\* true_index = ('ham' in base), guessed_index = (label == 'ham')   (lines 187-188)
true_index(ham_in_base) == IF ham_in_base THEN 1 ELSE 0

\* Mutant: the guessed index tests for the other label.
guessed_index_spam(guess) == IF guess = "spam" THEN 1 ELSE 0

guessed_index(guess) == IF guess = "ham" THEN 1 ELSE 0

\* one iteration of main's loop (lines 179-189) over a test file whose name
\* does or does not contain 'ham'; an exception of classify_email ends main
MainStep ==
    /\ pc = "main"
    /\ processed < MaxTests
    /\ \E words \in Files, ham_in_base \in BOOLEAN :
         LET result == classify_email(words, log_probabilities_by_category, log_prior)
             t == true_index(ham_in_base)
             g == guessed_index(result.label)
         IN  /\ log_probabilities_by_category' = result.tables
             /\ IF result.raised
                THEN /\ pc' = "crashed"
                     /\ error' = "KeyError"
                     /\ UNCHANGED <<performance_measures, processed, correct_files,
                                    true_ham_files>>
                ELSE /\ pc' = pc
                     /\ error' = "none"
                     /\ performance_measures' =
                            [performance_measures EXCEPT ![t][g] = @ + 1]
                     /\ processed' = processed + 1
                     /\ correct_files' = correct_files +
                            (IF (result.label = "ham") = ham_in_base THEN 1 ELSE 0)
                     /\ true_ham_files' = true_ham_files + (IF ham_in_base THEN 1 ELSE 0)
    /\ UNCHANGED <<file_lists, word_counts, log_prior, email, label, seen_email, seen_label,
                   seen_error, calls, printed>>

\* lines 196-204: correct = diag, totals = sum over guessed labels
MainPrint ==
    /\ pc = "main"
    /\ pc' = "done"
    /\ printed' = << performance_measures[0][0],
                     performance_measures[0][0] + performance_measures[0][1],
                     performance_measures[1][1],
                     performance_measures[1][0] + performance_measures[1][1] >>
    /\ UNCHANGED <<error, file_lists, word_counts, log_probabilities_by_category, log_prior,
                   email, label, seen_email, seen_label, seen_error, calls,
                   performance_measures, processed, correct_files, true_ham_files>>

Next == Learn \/ Classify \/ MainStart \/ MainStep \/ MainPrint

Spec == Init /\ [][Next]_vars
-----------------------------------------------------------------------------
\* What the properties are stated with

\* learn_distributions has returned (no ZeroDivisionError)
Trained == pc # "start" /\ error # "ZeroDivisionError"

\* the words occurring in at least one file of the list
WordsOf(file_list) == UNION {Range(file_list[i]) : i \in 1..Len(file_list)}

\* the number of files of the list that contain the word
DocFreq(word, file_list) ==
    Cardinality({i \in 1..Len(file_list) : \E j \in 1..Len(file_list[i]) :
                                              file_list[i][j] = word})

\* ln(a/b) as an extended real, -inf for a = 0
LnRatio(a, b) == IF a = 0 THEN NegInf ELSE Fin(0, a, b)

NumSpam == Len(file_lists[0])
NumHam == Len(file_lists[1])

-----------------------------------------------------------------------------
\* C1: classify_email has no error outcome: every call, whatever the document
\* and the learned tables, returns 'spam' or 'ham'.
C1_ClassifyAlwaysReturnsLabel ==
    calls >= 1 => (error = "none" /\ label \in {"spam", "ham"})

\* C2: get_log_probabilities maps each word of its table to
\* ln(smoothed count / number of documents in the list).
C2_LogOfCountOverNumFiles ==
    Trained =>
        \A c \in 0..1 : \A w \in Keys(log_probabilities_by_category[c]) :
            log_probabilities_by_category[c].items[w]
                = LnRatio(1 + DocFreq(w, file_lists[c]), Len(file_lists[c]))

\* C3: for a non-empty document list every word of the table has a smoothed
\* count >= 1 and a stored log-probability <= 0.
C3_CountAtLeastOneLogAtMostZero ==
    Trained =>
        \A c \in 0..1 : Len(file_lists[c]) > 0 =>
            \A w \in Keys(log_probabilities_by_category[c]) :
                /\ word_counts[c].items[w] >= 1
                /\ Sign(log_probabilities_by_category[c].items[w]) <= 0

\* C4: after learn_distributions every word of a training document of either
\* class is a key of both classes' tables.
C4_TrainingWordsInBothTables ==
    Trained =>
        \A w \in WordsOf(file_lists[0]) \cup WordsOf(file_lists[1]) :
            \A c \in 0..1 : w \in Keys(log_probabilities_by_category[c])

\* C5: learn_distributions returns two priors, priors[0] = ln(m/(m+n)) and
\* priors[1] = ln(n/(m+n)), and two tables, table 0 built from the spam list
\* only and table 1 from the ham list only.
C5_PriorsAndTablesByPosition ==
    Trained =>
        /\ DOMAIN log_prior = 0..1
        /\ log_prior[0] = LnRatio(NumSpam, NumSpam + NumHam)
        /\ log_prior[1] = LnRatio(NumHam, NumSpam + NumHam)
        /\ DOMAIN log_probabilities_by_category = 0..1
        /\ \A c \in 0..1 :
             /\ Keys(log_probabilities_by_category[c]) = WordsOf(file_lists[c])
             /\ \A w \in WordsOf(file_lists[c]) :
                    log_probabilities_by_category[c].items[w]
                        = LnRatio(1 + DocFreq(w, file_lists[c]), 1)

C5_Witness ==
    /\ Trained
    /\ NumSpam = 1
    /\ NumHam = 2
    /\ WordsOf(file_lists[0]) = {"free"}
    /\ WordsOf(file_lists[1]) = {"money"}

\* C6: whenever a class has no training documents, the other class empty or
\* not, learn_distributions does not raise and that class's prior is -inf.
C6_EmptyClassPriorNegInf ==
    pc # "start" =>
        \A c \in 0..1 : Len(file_lists[c]) = 0 =>
            (error # "ZeroDivisionError" /\ log_prior[c] = NegInf)

C7_CallStep ==
    pc \in {"learned", "main"} =>
        /\ log_probabilities_by_category' = log_probabilities_by_category
        /\ log_prior' = log_prior
        /\ (calls >= 1 /\ calls' = calls + 1 /\ email' = seen_email)
              => (label' = seen_label /\ error' = seen_error)

\* C7: every classify_email call leaves both tables and both priors as they
\* were, and a call on the document of the first call ends as the first call
\* did (same label, same exception).
C7_ClassifyIdempotentReadOnly == [][C7_CallStep]_vars

C7_Witness ==
    /\ calls >= 2
    /\ email = seen_email
    /\ Range(email) = {"free"}
    /\ NumHam = 2
    /\ label = "ham"

====
